---- MODULE Spec2Model ----
(***************************************************************************)
(* Model of the windows_autoupdate updater component                       *)
(* (package models, latest revision): the cache record, the change         *)
(* detector, the background download task and the DoCommand orchestration. *)
(***************************************************************************)
EXTENDS Integers, Sequences, FiniteSets, TLC

(* ------------------------------ bounds -------------------------------- *)
\* largest content length a server reports
MaxLen == 1
\* largest number of subkeys under the two uninstall registry roots
MaxSubkeys == 2
\* DoCommand calls in one behaviour
MaxTriggers == 2
\* reconfigurations in one behaviour
MaxReconfigs == 1
\* changes of the served payload in one behaviour
MaxRemoteChanges == 1
\* losses of cache.json in one behaviour
MaxLosses == 1
\* entries in an archive
MaxEntries == 2
\* path components in the name of an archive entry
MaxNameLen == 2
\* immediate children of the directory findInstaller scans
MaxChildren == 2
\* characters in registry_lookup_key and in registry_lookup_value
MaxFieldLen == 2
\* bits of an integer word: int64 and uint64 scaled down, so that every
\* value of the word can be enumerated
WordBits == 4

(* ------------------------------ values -------------------------------- *)
\* download_url values; "" passes Config.Validate (url.Parse("") succeeds)
URLs == {"", "u1", "u2"}
Lengths == 0..MaxLen
\* "" is a response without an etag header
ETags == {"", "e1"}

\* type cacheDetails struct
CacheDetailsType == [DownloadURL : URLs, ContentLength : Lengths, ETag : ETags, Installed : BOOLEAN]
\* cacheDetails{} : the zero value
ZeroCacheDetails == [DownloadURL |-> "", ContentLength |-> 0, ETag |-> "", Installed |-> FALSE]

\* type Config struct (the fields the orchestration reads);
\* RegistryLookup: registry_lookup_key and registry_lookup_value are both non-blank
ConfigType == [DownloadURL : URLs, AbortOnUninstallErrors : BOOLEAN, ForceInstall : BOOLEAN, RegistryLookup : BOOLEAN]

\* what the server reports for the configured URL (content length, etag)
RemoteType == [len : Lengths, etag : ETags]

\* the content of cache.json: no file, a zero-length file, bytes that do not
\* decode, or an encoded record
FileAbsent == [kind |-> "absent", rec |-> ZeroCacheDetails]
FileEmpty == [kind |-> "empty", rec |-> ZeroCacheDetails]
FileCorrupt == [kind |-> "corrupt", rec |-> ZeroCacheDetails]
FileJSON(d) == [kind |-> "json", rec |-> d]

\* a subkey of an uninstall root: its lookup value does not match ("other"),
\* it matches and has no uninstall string ("nocmd"), it matches and its
\* command fails ("fail") or succeeds ("ok")
SubkeyKinds == {"other", "nocmd", "fail", "ok"}
Registries == UNION {[1..n -> SubkeyKinds] : n \in 0..MaxSubkeys}

\* the result of http.Head: a transport error, a status other than 200, or 200
NoProbe == [kind |-> "none", len |-> 0, etag |-> ""]
HeadError == [kind |-> "err", len |-> 0, etag |-> ""]
HeadStatus == [kind |-> "status", len |-> 0, etag |-> ""]
HeadOK(r) == [kind |-> "ok", len |-> r.len, etag |-> r.etag]

\* the loop variable f of unzipUpdate before the first entry
NoZipFile == [name |-> <<>>, isDir |-> FALSE, fault |-> "none"]

\* no installer: the first return value of findInstaller on an error
NoInstaller == [kind |-> "none", idx |-> 0]
\* findInstaller on a directory was not called
NoFindArgs == [children |-> <<>>, installerPath |-> "", pathExists |-> FALSE, readDirErr |-> FALSE]
NoFindRet == [called |-> FALSE, installer |-> NoInstaller, dir |-> "", err |-> "nil", srcExists |-> TRUE]

\* exec.Command(name, arg...): the program to start and its arguments
Command(name, arg) == [Path |-> name, Args |-> arg]
NoCommand == Command(<<>>, <<>>)
\* a string value of a registry subkey as GetStringValue returns it
NoValue(e) == [err |-> e, s |-> <<>>]
StringValue(v) == [err |-> "nil", s |-> v]
NoSubkey == [lookup |-> NoValue("open"), quiet |-> NoValue("value"), plain |-> NoValue("value"),
             output |-> "nil"]
\* the cache functions are not taken by themselves
NoCacheStore == [parent |-> "absent", dir |-> "absent", file |-> FileAbsent]
NoCacheCall == [op |-> "none", err |-> "nil", details |-> ZeroCacheDetails,
                hasSet |-> FALSE, set |-> ZeroCacheDetails]
\* the free-space check was not reached
NoSpaceArgs == [destination |-> <<"C", ":">>, size |-> 0, freeSpace |-> 0, err |-> "nil"]
NoSpaceRet == [called |-> FALSE, out |-> "go on", available |-> 0, needed |-> 0]
\* uninstallExistingInstallation was not called
NoUninstallArgs == [RegistryLookupKey |-> <<>>, RegistryLookupValue |-> <<>>, n |-> 0]
NoUninstallCall == [pc |-> "none", i |-> 0, subkey |-> NoSubkey, matched |-> FALSE,
                    script |-> <<>>, cmd |-> NoCommand, uninstallCount |-> 0, errors |-> 0,
                    matches |-> 0, regRead |-> FALSE, err |-> "nil", reported |-> 0]

VARIABLES
    cfg,              \* s.cfg
    downloadComplete, \* s.downloadComplete
    bgpc,             \* position of the background worker (downloadIgnoringReturn)
    pc,               \* position of the DoCommand call
    ctxDone,          \* the DoCommand caller's context is cancelled
    result,           \* what the last DoCommand call on this instance returned ("none": nothing yet)
    cacheDirExists,   \* the per-instance cache directory exists
    cacheFile,        \* content of cache.json
    remote,           \* what the server serves at the configured URL
    payload,          \* metadata of the file the running DoCommand downloaded
    runUninstall,     \* uninstallExistingInstallation in this run: "no", "nil", "err"
    lastEval,         \* the updateHasChanged call made by the last step, if any
    installedPayloads,\* metadata of every payload installUpdate installed
    sinceInstall,     \* the last run installed, and nothing changed since
    nTriggers,        \* DoCommand calls so far
    nReconfigs,       \* reconfigurations so far
    nRemoteChanges,   \* changes of the served payload so far
    nLosses,          \* losses of cache.json so far
    updateFile,       \* the downloaded file (update) exists at the destination
    extractDir,       \* the directory the archive is extracted to (dest) exists
    dir,              \* dir returned by findInstaller to the running DoCommand: "" or "dest"
    other,            \* the locals of a second, concurrent DoCommand call
    stop,             \* Close: "no", "stopping" (in downloadWorkers.Stop), "stopped"
    rFileLen,         \* unzipUpdate: len(r.File), the number of entries of the archive
    zipFile,          \* unzipUpdate: f, the entry of r.File the loop handled last
    nextEntry,        \* unzipUpdate: index of the entry the loop extracts next
    files,            \* paths of the files on the volume of dest
    dirs,             \* paths of the directories on the volume of dest
    unzipPc,          \* unzipUpdate in findInstaller: "start", "extract", "err", "nil", "failed", "unzipped"
    unzipErr,         \* why unzipUpdate returned an error ("none": it did not)
    findArgs,         \* findInstaller on a directory: what it is given and finds on disk
    findRet,          \* findInstaller on a directory: what it returned and left on disk
    uninstallArgs,    \* uninstallExistingInstallation: the lookup fields and the registry's size
    uninstallCall,    \* uninstallExistingInstallation: its locals, subkey by subkey
    spaceArgs,        \* the free-space check of downloadUpdate: what it is given
    spaceRet,         \* the free-space check of downloadUpdate: what it ended in
    cacheStore,       \* the cache functions by themselves: the directories and cache.json
    cacheCall,        \* the cache functions by themselves: the last call and what it returned
    bgPayload         \* metadata of the file the worker's downloadUpdate downloaded

\* the variables of the orchestration
orchestration == <<cfg, downloadComplete, bgpc, pc, ctxDone, result, cacheDirExists, cacheFile,
                   remote, payload, runUninstall, lastEval,
                   installedPayloads, sinceInstall, nTriggers, nReconfigs, nRemoteChanges, nLosses,
                   updateFile, extractDir, dir, other, stop, bgPayload>>

\* the variables of one unzipUpdate call seen entry by entry
unzipVars == <<rFileLen, zipFile, nextEntry, files, dirs, unzipPc, unzipErr>>

\* the variables of one call of a function taken by itself
findVars == <<findArgs, findRet>>
uninstallVars == <<uninstallArgs, uninstallCall>>
spaceVars == <<spaceArgs, spaceRet>>
cacheVars == <<cacheStore, cacheCall>>
callVars == <<findVars, uninstallVars, spaceVars, cacheVars>>

vars == <<orchestration, unzipVars, callVars>>

counters == <<nTriggers, nReconfigs, nRemoteChanges, nLosses>>

\* the variables that only a second DoCommand call, Close or the entry by
\* entry extraction changes
elsewhere == <<other, stop, unzipVars, callVars, bgPayload>>

\* no function is taken by itself
NoFind == findArgs = NoFindArgs /\ findRet = NoFindRet
NoUninstall == uninstallArgs = NoUninstallArgs /\ uninstallCall = NoUninstallCall
NoSpace == spaceArgs = NoSpaceArgs /\ spaceRet = NoSpaceRet
NoCache == cacheStore = NoCacheStore /\ cacheCall = NoCacheCall
NoCalls == NoFind /\ NoUninstall /\ NoSpace /\ NoCache

(* -------------------------- Cache State Store -------------------------- *)
\* getCacheDetailsFile: fails when cache.json cannot be opened in the cache
\* directory; otherwise cache.json exists afterwards (O_CREATE)
getCacheDetailsFileErr(dirExists) == ~dirExists

getCacheDetailsFile(dirExists, file) ==
    IF getCacheDetailsFileErr(dirExists) THEN file
    ELSE IF file.kind = "absent" THEN FileEmpty ELSE file

\* (variant) a failed decode returns the partly filled struct, not the zero value
getCacheDetails_ReturnsPartial(dirExists, file) ==
    IF getCacheDetailsFileErr(dirExists) THEN ZeroCacheDetails
    ELSE IF file.kind = "json" THEN file.rec
    ELSE [ZeroCacheDetails EXCEPT !.Installed = TRUE]

\* getCacheDetails: the decoded record, or the zero value on any error

getCacheDetails(dirExists, file) ==
    IF getCacheDetailsFileErr(dirExists) THEN ZeroCacheDetails
    ELSE IF file.kind = "json" THEN file.rec
    ELSE ZeroCacheDetails

\* setCacheDetails: cache.json after the call (truncated and rewritten, or
\* left as it was when the file cannot be opened)
setCacheDetails(dirExists, file, details) ==
    IF getCacheDetailsFileErr(dirExists) THEN file ELSE FileJSON(details)

\* the record a reader of cache.json sees
PersistedRecord == getCacheDetails(cacheDirExists, cacheFile)

(* --------------------------- Change Detector --------------------------- *)
\* http.Head is reached only past the force_install and URL tests
HeadIssued(c, details) == ~c.ForceInstall /\ details.DownloadURL = c.DownloadURL

\* what http.Head(url) can return; an empty URL has no protocol scheme
HeadOutcomes(url, r) == IF url = "" THEN {HeadError} ELSE {HeadError, HeadStatus, HeadOK(r)}

\* (variant) force_install is not consulted
updateHasChanged_IgnoresForce(c, details, head) ==
    IF details.DownloadURL # c.DownloadURL THEN TRUE
    ELSE IF head.kind # "ok" THEN TRUE
    ELSE IF head.len # details.ContentLength THEN TRUE
    ELSE IF head.etag # details.ETag THEN TRUE
    ELSE IF ~details.Installed THEN TRUE
    ELSE FALSE

\* (variant) the installed test is inverted
updateHasChanged_InvertedInstalled(c, details, head) ==
    IF c.ForceInstall THEN TRUE
    ELSE IF details.DownloadURL # c.DownloadURL THEN TRUE
    ELSE IF head.kind # "ok" THEN TRUE
    ELSE IF head.len # details.ContentLength THEN TRUE
    ELSE IF head.etag # details.ETag THEN TRUE
    ELSE IF details.Installed THEN TRUE
    ELSE FALSE

\* (variant) a failed probe reports no change
updateHasChanged_FailsClosed(c, details, head) ==
    IF c.ForceInstall THEN TRUE
    ELSE IF details.DownloadURL # c.DownloadURL THEN TRUE
    ELSE IF head.kind # "ok" THEN FALSE
    ELSE IF head.len # details.ContentLength THEN TRUE
    ELSE IF head.etag # details.ETag THEN TRUE
    ELSE IF ~details.Installed THEN TRUE
    ELSE FALSE

\* updateHasChanged: the tests in the order of the code, the first that
\* applies decides
updateHasChanged(c, details, head) ==
    IF c.ForceInstall THEN TRUE
    ELSE IF details.DownloadURL # c.DownloadURL THEN TRUE
    ELSE IF head.kind # "ok" THEN TRUE
    ELSE IF head.len # details.ContentLength THEN TRUE
    ELSE IF head.etag # details.ETag THEN TRUE
    ELSE IF ~details.Installed THEN TRUE
    ELSE FALSE

\* (variant) the transfer does not carry the caller's context
DownloadOutcomes_IgnoresContext(url, cancelled) ==
    IF url = "" THEN {"err"} ELSE {"ok", "err", "nospace"}

\* what the transfer (grab client.Do, free-space check, resp.Err) can end in
DownloadOutcomes(url, cancelled) ==
    IF url = "" \/ cancelled THEN {"err"} ELSE {"ok", "err", "nospace"}

(* --------------------------- Uninstall Matcher ------------------------- *)
uninstallCount(reg) == Cardinality({i \in DOMAIN reg : reg[i] = "ok"})
uninstallErrors(reg) == Cardinality({i \in DOMAIN reg : reg[i] \in {"nocmd", "fail"}})

\* uninstallExistingInstallation: "nil" or "err"
uninstallExistingInstallation(c, reg) ==
    IF ~c.RegistryLookup THEN "nil"
    ELSE IF uninstallCount(reg) > 0 THEN "nil"
    ELSE IF uninstallErrors(reg) > 0 THEN "err"
    ELSE "nil"

(* ----------------------------- findInstaller -------------------------- *)
\* findInstaller(update): the update is a .zip or not (zip); what it ends in:
\* unzipUpdate fails ("unzipErr"), the configured installer_path is not in the
\* extracted directory or the directory cannot be read ("removed"), no file
\* with an installer extension is found ("noInstaller"), an installer is found
FindOutcomes(zip) ==
    IF zip THEN {"unzipErr", "removed", "noInstaller", "found"} ELSE {"noInstaller", "found"}

\* what findInstaller returns and leaves of the extracted directory (dest):
\* err, dir ("" for an update that is the installer itself) and whether dest
\* exists afterwards (before: exists)
findInstaller(zip, out, exists) ==
    IF ~zip THEN [err |-> out # "found", dir |-> "", extractDir |-> exists]
    ELSE IF out \in {"unzipErr", "removed"} THEN [err |-> TRUE, dir |-> "", extractDir |-> FALSE]
    ELSE IF out = "noInstaller" THEN [err |-> TRUE, dir |-> "", extractDir |-> TRUE]
    ELSE [err |-> FALSE, dir |-> "dest", extractDir |-> TRUE]

\* the deferred cleanup of DoCommand after findInstaller succeeded: dest after
\* os.RemoveAll(dir), or after os.RemoveAll(installer) when dir is ""
deferredRemoveAll(d, exists) == IF d # "" THEN FALSE ELSE exists

\* the locals of a DoCommand call that is not running
IdleCall == [pc |-> "idle", ctxDone |-> FALSE, result |-> "none", payload |-> [url |-> "", len |-> 0, etag |-> ""],
             runUninstall |-> "no", dir |-> ""]

(* ------------------------------- Init ---------------------------------- *)
NoPayload == [url |-> "", len |-> 0, etag |-> ""]
\* lastEval when the last step was no updateHasChanged call
NoEval == [called |-> FALSE, by |-> "none", force |-> FALSE, url |-> "", details |-> ZeroCacheDetails,
           kind |-> "absent", head |-> NoProbe, changed |-> FALSE]

\* newWindowsAutoupdateUpdater: the worker is added, downloadComplete is false
Init ==
    /\ cfg \in ConfigType
    /\ downloadComplete = FALSE
    /\ bgpc = "eval"
    /\ pc = "idle"
    /\ ctxDone = FALSE
    /\ result = "none"
    /\ cacheDirExists \in BOOLEAN
    /\ cacheFile = FileAbsent
    /\ remote \in RemoteType
    /\ payload = NoPayload
    /\ runUninstall = "no"
    /\ lastEval = NoEval
    /\ installedPayloads = {}
    /\ sinceInstall = FALSE
    /\ nTriggers = 0
    /\ nReconfigs = 0
    /\ nRemoteChanges = 0
    /\ nLosses = 0
    /\ updateFile = FALSE
    /\ extractDir = FALSE
    /\ dir = ""
    /\ other = IdleCall
    /\ stop = "no"
    /\ rFileLen = 0
    /\ zipFile = NoZipFile
    /\ nextEntry = 0
    /\ files = {}
    /\ dirs = {}
    /\ unzipPc = "start"
    /\ unzipErr = "none"
    /\ NoCalls
    /\ bgPayload = NoPayload

(* ------------------------ downloadUpdate, part 1 ----------------------- *)
\* downloadUpdate up to its first return: updateHasChanged reads the record
\* (unless force_install returns first) and probes the server
Evaluate(c, dirExists, file, head) ==
    LET details == getCacheDetails(dirExists, file)
    IN [changed |-> updateHasChanged(c, details, head),
        file |-> IF c.ForceInstall THEN file ELSE getCacheDetailsFile(dirExists, file),
        details |-> details,
        head |-> IF HeadIssued(c, details) THEN head ELSE NoProbe]

\* the record of an updateHasChanged call: the caller ("worker" or
\* "DoCommand"), the configuration, the file it found
\* and the record it read, the probe's answer, the value returned
EvalRecord(by, c, dirExists, file, e) ==
    [called |-> TRUE, by |-> by, force |-> c.ForceInstall, url |-> c.DownloadURL, details |-> e.details,
     kind |-> IF getCacheDetailsFileErr(dirExists) THEN "unreadable" ELSE file.kind,
     head |-> e.head, changed |-> e.changed]

\* (variant) the saved record does not clear the installed flag
DownloadedDetails_InstalledSet(c, r) ==
    [DownloadURL |-> c.DownloadURL, ContentLength |-> r.len, ETag |-> r.etag, Installed |-> TRUE]

\* the record downloadUpdate saves after a transfer without error
DownloadedDetails(c, r) ==
    [DownloadURL |-> c.DownloadURL, ContentLength |-> r.len, ETag |-> r.etag, Installed |-> FALSE]

(* -------------------------- background worker -------------------------- *)
\* (variant) downloadComplete is set before downloadUpdate is called
BgUpdateHasChanged_SetsFlagFirst ==
    /\ UNCHANGED counters
    /\ UNCHANGED elsewhere
    /\ bgpc = "eval"
    /\ \E head \in HeadOutcomes(cfg.DownloadURL, remote) :
         LET e == Evaluate(cfg, cacheDirExists, cacheFile, head) IN
         /\ cacheFile' = e.file
         /\ lastEval' = EvalRecord("worker", cfg, cacheDirExists, cacheFile, e)
         /\ IF e.changed
            THEN bgpc' = "transfer" /\ downloadComplete' = TRUE
            ELSE bgpc' = "done" /\ downloadComplete' = TRUE
    /\ UNCHANGED <<cfg, pc, ctxDone, result, cacheDirExists, remote, payload,
                   runUninstall, installedPayloads, sinceInstall>>
    /\ UNCHANGED <<updateFile, extractDir, dir>>

\* downloadIgnoringReturn: downloadUpdate returns errNoUpdateNeeded, or goes
\* on to the transfer
BgUpdateHasChanged ==
    /\ UNCHANGED counters
    /\ UNCHANGED elsewhere
    /\ bgpc = "eval"
    /\ \E head \in HeadOutcomes(cfg.DownloadURL, remote) :
         LET e == Evaluate(cfg, cacheDirExists, cacheFile, head) IN
         /\ cacheFile' = e.file
         /\ lastEval' = EvalRecord("worker", cfg, cacheDirExists, cacheFile, e)
         /\ IF e.changed
            THEN bgpc' = "transfer" /\ downloadComplete' = FALSE
            ELSE bgpc' = "done" /\ downloadComplete' = TRUE
    /\ UNCHANGED <<cfg, pc, ctxDone, result, cacheDirExists, remote, payload,
                   runUninstall, installedPayloads, sinceInstall>>
    /\ UNCHANGED <<updateFile, extractDir, dir>>

\* (variant) the worker installs what it downloaded
BgDownload_Installs ==
    /\ UNCHANGED counters
    /\ UNCHANGED <<other, stop, unzipVars, callVars>>
    /\ bgpc = "transfer"
    /\ \E out \in DownloadOutcomes(cfg.DownloadURL, stop = "stopping") :
         /\ cacheFile' = IF out = "ok"
                         THEN setCacheDetails(cacheDirExists, getCacheDetailsFile(cacheDirExists, cacheFile),
                                              DownloadedDetails(cfg, remote))
                         ELSE cacheFile
         /\ updateFile' = (updateFile \/ out = "ok")
         /\ bgPayload' = IF out = "ok"
                         THEN [url |-> cfg.DownloadURL, len |-> remote.len, etag |-> remote.etag]
                         ELSE bgPayload
    /\ bgpc' = "done"
    /\ downloadComplete' = TRUE
    /\ lastEval' = NoEval
    /\ UNCHANGED <<cfg, pc, ctxDone, result, cacheDirExists, remote, payload,
                   runUninstall, sinceInstall, extractDir, dir>>
    /\ installedPayloads' = installedPayloads \cup {bgPayload'}

\* (variant) downloadComplete is set only when downloadUpdate returned no error
BgDownload_FlagOnSuccess ==
    /\ UNCHANGED counters
    /\ UNCHANGED <<other, stop, unzipVars, callVars>>
    /\ bgpc = "transfer"
    /\ \E out \in DownloadOutcomes(cfg.DownloadURL, stop = "stopping") :
         /\ cacheFile' = IF out = "ok"
                         THEN setCacheDetails(cacheDirExists, getCacheDetailsFile(cacheDirExists, cacheFile),
                                              DownloadedDetails(cfg, remote))
                         ELSE cacheFile
         /\ updateFile' = (updateFile \/ out = "ok")
         /\ downloadComplete' = (out = "ok")
         /\ bgPayload' = IF out = "ok"
                         THEN [url |-> cfg.DownloadURL, len |-> remote.len, etag |-> remote.etag]
                         ELSE bgPayload
    /\ bgpc' = "done"
    /\ lastEval' = NoEval
    /\ UNCHANGED <<cfg, pc, ctxDone, result, cacheDirExists, remote, payload,
                   runUninstall, installedPayloads, sinceInstall, extractDir, dir>>

\* downloadIgnoringReturn: the transfer ends, its result is dropped and
\* downloadComplete is set
BgDownload ==
    /\ UNCHANGED counters
    /\ UNCHANGED <<other, stop, unzipVars, callVars>>
    /\ bgpc = "transfer"
    /\ \E out \in DownloadOutcomes(cfg.DownloadURL, stop = "stopping") :
         /\ cacheFile' = IF out = "ok"
                         THEN setCacheDetails(cacheDirExists, getCacheDetailsFile(cacheDirExists, cacheFile),
                                              DownloadedDetails(cfg, remote))
                         ELSE cacheFile
         /\ updateFile' = (updateFile \/ out = "ok")
         /\ bgPayload' = IF out = "ok"
                         THEN [url |-> cfg.DownloadURL, len |-> remote.len, etag |-> remote.etag]
                         ELSE bgPayload
    /\ bgpc' = "done"
    /\ downloadComplete' = TRUE
    /\ lastEval' = NoEval
    /\ UNCHANGED <<cfg, pc, ctxDone, result, cacheDirExists, remote, payload,
                   runUninstall, installedPayloads, sinceInstall, extractDir, dir>>

(* ------------------------------ DoCommand ------------------------------ *)
\* the host sends a DoCommand (one call at a time)
Trigger ==
    /\ pc = "idle"
    /\ nTriggers < MaxTriggers
    /\ nTriggers' = nTriggers + 1
    /\ UNCHANGED <<nReconfigs, nRemoteChanges, nLosses>>
    /\ UNCHANGED elsewhere
    /\ pc' = "wait"
    /\ ctxDone' = FALSE
    /\ payload' = NoPayload
    /\ runUninstall' = "no"
    /\ result' = "none"
    /\ lastEval' = NoEval
    /\ UNCHANGED <<cfg, downloadComplete, bgpc, cacheDirExists, cacheFile, remote,
                   installedPayloads, sinceInstall>>
    /\ dir' = ""
    /\ UNCHANGED <<updateFile, extractDir>>

\* the caller cancels the context of the running call (read by the wait loop
\* and by the transfer only)
CancelContext ==
    /\ UNCHANGED counters
    /\ UNCHANGED elsewhere
    /\ pc \in {"wait", "eval", "transfer"}
    /\ ~ctxDone
    /\ ctxDone' = TRUE
    /\ lastEval' = NoEval
    /\ UNCHANGED <<cfg, downloadComplete, bgpc, pc, result, cacheDirExists, cacheFile, remote,
                   payload, runUninstall, installedPayloads,
                   sinceInstall>>
    /\ UNCHANGED <<updateFile, extractDir, dir>>

\* the wait loop ends: downloadComplete was seen, or SelectContextOrWait
\* returned false
DoCommandWait ==
    /\ UNCHANGED counters
    /\ UNCHANGED elsewhere
    /\ pc = "wait"
    /\ downloadComplete \/ ctxDone
    /\ pc' = "eval"
    /\ lastEval' = NoEval
    /\ UNCHANGED <<cfg, downloadComplete, bgpc, ctxDone, result, cacheDirExists, cacheFile,
                   remote, payload, runUninstall, installedPayloads, sinceInstall>>
    /\ UNCHANGED <<updateFile, extractDir, dir>>

\* downloadUpdate returns errNoUpdateNeeded and DoCommand returns it, or
\* downloadUpdate goes on to the transfer
DoCommandUpdateHasChanged ==
    /\ UNCHANGED counters
    /\ UNCHANGED elsewhere
    /\ pc = "eval"
    /\ \E head \in HeadOutcomes(cfg.DownloadURL, remote) :
         LET e == Evaluate(cfg, cacheDirExists, cacheFile, head) IN
         /\ cacheFile' = e.file
         /\ lastEval' = EvalRecord("DoCommand", cfg, cacheDirExists, cacheFile, e)
         /\ IF e.changed
            THEN pc' = "transfer" /\ UNCHANGED result
            ELSE pc' = "idle" /\ result' = "errNoUpdateNeeded"
    /\ UNCHANGED <<cfg, downloadComplete, bgpc, ctxDone, cacheDirExists, remote,
                   payload, runUninstall, installedPayloads, sinceInstall>>
    /\ UNCHANGED <<updateFile, extractDir, dir>>

\* (variant) when the transfer fails the file of the background download is used
DoCommandDownload_UsesBackgroundFile ==
    /\ UNCHANGED counters
    /\ UNCHANGED elsewhere
    /\ pc = "transfer"
    /\ \E out \in DownloadOutcomes(cfg.DownloadURL, ctxDone) :
         IF out = "ok"
         THEN /\ cacheFile' = setCacheDetails(cacheDirExists,
                                  getCacheDetailsFile(cacheDirExists, cacheFile),
                                  DownloadedDetails(cfg, remote))
              /\ payload' = [url |-> cfg.DownloadURL, len |-> remote.len, etag |-> remote.etag]
              /\ updateFile' = TRUE
              /\ pc' = "locate"
              /\ UNCHANGED result
         ELSE /\ IF bgPayload # NoPayload /\ updateFile
                 THEN pc' = "locate" /\ UNCHANGED result
                 ELSE /\ pc' = "idle"
                      /\ result' = IF out = "nospace" THEN "errNoSpace" ELSE "errDownload"
              /\ UNCHANGED <<cacheFile, payload, updateFile>>
    /\ sinceInstall' = FALSE
    /\ lastEval' = NoEval
    /\ UNCHANGED <<cfg, downloadComplete, bgpc, ctxDone, cacheDirExists, remote,
                   runUninstall, installedPayloads, extractDir, dir>>

\* the transfer of downloadUpdate: an error is returned by DoCommand, success
\* saves the record and hands the file to findInstaller
DoCommandDownload ==
    /\ UNCHANGED counters
    /\ UNCHANGED elsewhere
    /\ pc = "transfer"
    /\ \E out \in DownloadOutcomes(cfg.DownloadURL, ctxDone) :
         IF out = "ok"
         THEN /\ cacheFile' = setCacheDetails(cacheDirExists,
                                  getCacheDetailsFile(cacheDirExists, cacheFile),
                                  DownloadedDetails(cfg, remote))
              /\ payload' = [url |-> cfg.DownloadURL, len |-> remote.len, etag |-> remote.etag]
              /\ updateFile' = TRUE
              /\ pc' = "locate"
              /\ UNCHANGED result
         ELSE /\ pc' = "idle"
              /\ result' = IF out = "nospace" THEN "errNoSpace" ELSE "errDownload"
              /\ UNCHANGED <<cacheFile, payload, updateFile>>
    /\ sinceInstall' = FALSE
    /\ lastEval' = NoEval
    /\ UNCHANGED <<cfg, downloadComplete, bgpc, ctxDone, cacheDirExists, remote,
                   runUninstall, installedPayloads, extractDir, dir>>

\* (variant) installUpdate is called without uninstallExistingInstallation
DoCommandFindInstaller_SkipsUninstall ==
    /\ UNCHANGED counters
    /\ UNCHANGED elsewhere
    /\ pc = "locate"
    /\ \E zip \in BOOLEAN : \E out \in FindOutcomes(zip) :
         LET r == findInstaller(zip, out, extractDir) IN
         /\ extractDir' = r.extractDir
         /\ dir' = r.dir
         /\ IF r.err
            THEN pc' = "idle" /\ result' = "errFindInstaller" /\ updateFile' = FALSE
            ELSE pc' = "install" /\ UNCHANGED <<result, updateFile>>
    /\ lastEval' = NoEval
    /\ UNCHANGED <<cfg, downloadComplete, bgpc, ctxDone, cacheDirExists, cacheFile, remote,
                   payload, runUninstall, installedPayloads, sinceInstall>>

\* (variant) a failure of findInstaller does not end the call
DoCommandFindInstaller_UninstallsFirst ==
    /\ UNCHANGED counters
    /\ UNCHANGED elsewhere
    /\ pc = "locate"
    /\ \E zip \in BOOLEAN : \E out \in FindOutcomes(zip) :
         LET r == findInstaller(zip, out, extractDir) IN
         /\ extractDir' = r.extractDir
         /\ dir' = r.dir
         /\ pc' = "uninstall"
         /\ result' = IF r.err THEN "errFindInstaller" ELSE result
         /\ UNCHANGED updateFile
    /\ lastEval' = NoEval
    /\ UNCHANGED <<cfg, downloadComplete, bgpc, ctxDone, cacheDirExists, cacheFile, remote,
                   payload, runUninstall, installedPayloads, sinceInstall>>

\* findInstaller: an installer is found, or DoCommand returns the error
DoCommandFindInstaller ==
    /\ UNCHANGED counters
    /\ UNCHANGED elsewhere
    /\ pc = "locate"
    /\ \E zip \in BOOLEAN : \E out \in FindOutcomes(zip) :
         LET r == findInstaller(zip, out, extractDir) IN
         /\ extractDir' = r.extractDir
         /\ dir' = r.dir
         /\ IF r.err
            THEN pc' = "idle" /\ result' = "errFindInstaller" /\ updateFile' = FALSE
            ELSE pc' = "uninstall" /\ UNCHANGED <<result, updateFile>>
    /\ lastEval' = NoEval
    /\ UNCHANGED <<cfg, downloadComplete, bgpc, ctxDone, cacheDirExists, cacheFile, remote,
                   payload, runUninstall, installedPayloads, sinceInstall>>

\* (variant) an uninstall error ends the call whatever the configuration says
DoCommandUninstall_AlwaysAborts ==
    /\ UNCHANGED counters
    /\ UNCHANGED elsewhere
    /\ pc = "uninstall"
    /\ \E reg \in Registries :
         LET err == uninstallExistingInstallation(cfg, reg) IN
         /\ runUninstall' = err
         /\ IF err = "err"
            THEN /\ pc' = "idle" /\ result' = "errUninstall"
                 /\ updateFile' = FALSE
                 /\ extractDir' = deferredRemoveAll(dir, extractDir)
            ELSE /\ pc' = "install"
                 /\ UNCHANGED <<result, updateFile, extractDir>>
    /\ lastEval' = NoEval
    /\ UNCHANGED <<cfg, downloadComplete, bgpc, ctxDone, cacheDirExists, cacheFile, remote,
                   payload, installedPayloads, sinceInstall, dir>>

\* uninstallExistingInstallation; its error ends the call only with
\* abort_on_uninstall_errors
DoCommandUninstall ==
    /\ UNCHANGED counters
    /\ UNCHANGED elsewhere
    /\ pc = "uninstall"
    /\ \E reg \in Registries :
         LET err == uninstallExistingInstallation(cfg, reg) IN
         /\ runUninstall' = err
         /\ IF err = "err" /\ cfg.AbortOnUninstallErrors
            THEN /\ pc' = "idle" /\ result' = "errUninstall"
                 /\ updateFile' = FALSE
                 /\ extractDir' = deferredRemoveAll(dir, extractDir)
            ELSE /\ pc' = "install"
                 /\ UNCHANGED <<result, updateFile, extractDir>>
    /\ lastEval' = NoEval
    /\ UNCHANGED <<cfg, downloadComplete, bgpc, ctxDone, cacheDirExists, cacheFile, remote,
                   payload, installedPayloads, sinceInstall, dir>>

\* (variant) the record is marked installed whatever installUpdate returns
DoCommandInstall_MarksAlways ==
    /\ UNCHANGED counters
    /\ UNCHANGED elsewhere
    /\ pc = "install"
    /\ \E ok \in BOOLEAN :
         LET details == getCacheDetails(cacheDirExists, cacheFile)
             opened == getCacheDetailsFile(cacheDirExists, cacheFile)
         IN /\ cacheFile' = setCacheDetails(cacheDirExists, opened,
                                            [details EXCEPT !.Installed = TRUE])
            /\ IF ok
               THEN /\ result' = "nil"
                    /\ installedPayloads' = installedPayloads \cup {payload}
                    /\ sinceInstall' = (payload.len = remote.len /\ payload.etag = remote.etag)
               ELSE /\ result' = "errInstall"
                    /\ UNCHANGED <<installedPayloads, sinceInstall>>
    /\ pc' = "idle"
    /\ lastEval' = NoEval
    /\ UNCHANGED <<cfg, downloadComplete, bgpc, ctxDone, cacheDirExists, remote,
                   payload, runUninstall>>
    /\ updateFile' = FALSE
    /\ extractDir' = deferredRemoveAll(dir, extractDir)
    /\ UNCHANGED dir

\* (variant) an error of the save is returned by DoCommand
DoCommandInstall_ReturnsSaveError ==
    /\ UNCHANGED counters
    /\ UNCHANGED elsewhere
    /\ pc = "install"
    /\ \E ok \in BOOLEAN :
         IF ok
         THEN LET details == getCacheDetails(cacheDirExists, cacheFile)
                  opened == getCacheDetailsFile(cacheDirExists, cacheFile)
              IN /\ cacheFile' = setCacheDetails(cacheDirExists, opened,
                                                 [details EXCEPT !.Installed = TRUE])
                 /\ result' = IF getCacheDetailsFileErr(cacheDirExists) THEN "errSave" ELSE "nil"
                 /\ installedPayloads' = installedPayloads \cup {payload}
                 /\ sinceInstall' = (payload.len = remote.len /\ payload.etag = remote.etag)
         ELSE /\ result' = "errInstall"
              /\ UNCHANGED <<cacheFile, installedPayloads, sinceInstall>>
    /\ pc' = "idle"
    /\ lastEval' = NoEval
    /\ UNCHANGED <<cfg, downloadComplete, bgpc, ctxDone, cacheDirExists, remote,
                   payload, runUninstall>>
    /\ updateFile' = FALSE
    /\ extractDir' = deferredRemoveAll(dir, extractDir)
    /\ UNCHANGED dir

\* installUpdate; on success the record is read, marked installed and saved
\* (an error of the save is logged only)
DoCommandInstall ==
    /\ UNCHANGED counters
    /\ UNCHANGED elsewhere
    /\ pc = "install"
    /\ \E ok \in BOOLEAN :
         IF ok
         THEN LET details == getCacheDetails(cacheDirExists, cacheFile)
                  opened == getCacheDetailsFile(cacheDirExists, cacheFile)
              IN /\ cacheFile' = setCacheDetails(cacheDirExists, opened,
                                                 [details EXCEPT !.Installed = TRUE])
                 /\ result' = "nil"
                 /\ installedPayloads' = installedPayloads \cup {payload}
                 /\ sinceInstall' = (payload.len = remote.len /\ payload.etag = remote.etag)
         ELSE /\ result' = "errInstall"
              /\ UNCHANGED <<cacheFile, installedPayloads, sinceInstall>>
    /\ pc' = "idle"
    /\ lastEval' = NoEval
    /\ UNCHANGED <<cfg, downloadComplete, bgpc, ctxDone, cacheDirExists, remote,
                   payload, runUninstall>>
    /\ updateFile' = FALSE
    /\ extractDir' = deferredRemoveAll(dir, extractDir)
    /\ UNCHANGED dir

(* --------------------------- host and world ---------------------------- *)
\* (variant) the configuration is replaced in place: no new instance, no new
\* background download
Reconfigure_InPlace ==
    /\ pc = "idle"
    /\ nReconfigs < MaxReconfigs
    /\ nReconfigs' = nReconfigs + 1
    /\ UNCHANGED <<nTriggers, nRemoteChanges, nLosses>>
    /\ UNCHANGED <<other, stop, unzipVars, callVars>>
    /\ bgPayload' = bgPayload
    /\ \E c \in ConfigType : cfg' = c
    /\ sinceInstall' = FALSE
    /\ result' = "none"
    /\ payload' = NoPayload
    /\ runUninstall' = "no"
    /\ lastEval' = NoEval
    /\ dir' = ""
    /\ UNCHANGED <<downloadComplete, bgpc, pc, ctxDone, cacheDirExists, cacheFile, remote,
                   installedPayloads, updateFile, extractDir>>

\* resource.AlwaysRebuild: a new configuration closes the instance and
\* constructs a new one, which starts its own background download
Reconfigure ==
    /\ pc = "idle"
    /\ nReconfigs < MaxReconfigs
    /\ nReconfigs' = nReconfigs + 1
    /\ UNCHANGED <<nTriggers, nRemoteChanges, nLosses>>
    /\ UNCHANGED <<other, stop, unzipVars, callVars>>
    /\ bgPayload' = NoPayload
    /\ \E c \in ConfigType : cfg' = c
    /\ downloadComplete' = FALSE
    /\ bgpc' = "eval"
    /\ sinceInstall' = FALSE
    /\ result' = "none"
    /\ payload' = NoPayload
    /\ runUninstall' = "no"
    /\ lastEval' = NoEval
    /\ UNCHANGED <<pc, ctxDone, cacheDirExists, cacheFile, remote, installedPayloads>>
    /\ dir' = ""
    /\ UNCHANGED <<updateFile, extractDir>>

\* the server starts serving another payload
RemoteChange ==
    /\ nRemoteChanges < MaxRemoteChanges
    /\ nRemoteChanges' = nRemoteChanges + 1
    /\ UNCHANGED <<nTriggers, nReconfigs, nLosses>>
    /\ UNCHANGED elsewhere
    /\ \E r \in RemoteType \ {remote} : remote' = r
    /\ sinceInstall' = FALSE
    /\ lastEval' = NoEval
    /\ UNCHANGED <<cfg, downloadComplete, bgpc, pc, ctxDone, result, cacheDirExists, cacheFile,
                   payload, runUninstall, installedPayloads>>
    /\ UNCHANGED <<updateFile, extractDir, dir>>

\* cache.json (a file under the temp directory) is deleted or damaged
LoseCache ==
    /\ nLosses < MaxLosses
    /\ nLosses' = nLosses + 1
    /\ UNCHANGED <<nTriggers, nReconfigs, nRemoteChanges>>
    /\ UNCHANGED elsewhere
    /\ cacheFile.kind \in {"empty", "json"}
    /\ \E f \in {FileAbsent, FileCorrupt} : cacheFile' = f
    /\ sinceInstall' = FALSE
    /\ lastEval' = NoEval
    /\ UNCHANGED <<cfg, downloadComplete, bgpc, pc, ctxDone, result, cacheDirExists, remote,
                   payload, runUninstall, installedPayloads>>
    /\ UNCHANGED <<updateFile, extractDir, dir>>

Next ==
    \/ BgUpdateHasChanged
    \/ BgDownload
    \/ Trigger
    \/ CancelContext
    \/ DoCommandWait
    \/ DoCommandUpdateHasChanged
    \/ DoCommandDownload
    \/ DoCommandFindInstaller
    \/ DoCommandUninstall
    \/ DoCommandInstall
    \/ Reconfigure
    \/ RemoteChange
    \/ LoseCache

Spec == Init /\ [][Next]_vars

(* ----------------------- start with a stored record -------------------- *)
\* what cache.json can hold when the component is constructed: the record
\* survives restarts, so anything an earlier process left
StoredFiles == {FileAbsent, FileEmpty, FileCorrupt} \cup {FileJSON(d) : d \in CacheDetailsType}

\* newWindowsAutoupdateUpdater on a machine with any stored record
InitStartup ==
    /\ cfg \in ConfigType
    /\ downloadComplete = FALSE
    /\ bgpc = "eval"
    /\ pc = "idle"
    /\ ctxDone = FALSE
    /\ result = "none"
    /\ cacheDirExists \in BOOLEAN
    /\ cacheFile \in IF cacheDirExists THEN StoredFiles ELSE {FileAbsent}
    /\ remote \in RemoteType
    /\ payload = NoPayload
    /\ runUninstall = "no"
    /\ lastEval = NoEval
    /\ installedPayloads = IF cacheFile.rec.Installed
                           THEN {[url |-> cacheFile.rec.DownloadURL, len |-> cacheFile.rec.ContentLength,
                                  etag |-> cacheFile.rec.ETag]}
                           ELSE {}
    /\ sinceInstall = FALSE
    /\ nTriggers = 0
    /\ nReconfigs = 0
    /\ nRemoteChanges = 0
    /\ nLosses = 0
    /\ updateFile = FALSE
    /\ extractDir = FALSE
    /\ dir = ""
    /\ other = IdleCall
    /\ stop = "no"
    /\ rFileLen = 0
    /\ zipFile = NoZipFile
    /\ nextEntry = 0
    /\ files = {}
    /\ dirs = {}
    /\ unzipPc = "start"
    /\ unzipErr = "none"
    /\ NoCalls
    /\ bgPayload = NoPayload

\* the worker and the DoCommand calls of one instance, the world left alone
NextStartup ==
    \/ BgUpdateHasChanged
    \/ BgDownload
    \/ Trigger
    \/ CancelContext
    \/ DoCommandWait
    \/ DoCommandUpdateHasChanged
    \/ DoCommandDownload
    \/ DoCommandFindInstaller
    \/ DoCommandUninstall
    \/ DoCommandInstall

SpecStartup == InitStartup /\ [][NextStartup]_vars

(* ------------------------ two concurrent DoCommand calls ---------------- *)
\* DoCommand takes no lock and the struct has no field that marks a running
\* call: a second call runs the same code on the same instance. The scheduler
\* switches between the two goroutines: the locals of the running call are
\* exchanged with those of the other (neither context is cancelled here)
SwitchCall ==
    /\ other' = [pc |-> pc, ctxDone |-> ctxDone, result |-> result, payload |-> payload,
                 runUninstall |-> runUninstall, dir |-> dir]
    /\ pc' = other.pc
    /\ ctxDone' = other.ctxDone
    /\ result' = other.result
    /\ payload' = other.payload
    /\ runUninstall' = other.runUninstall
    /\ dir' = other.dir
    /\ pc # "idle" \/ other.pc # "idle"
    /\ lastEval' = NoEval
    /\ UNCHANGED counters
    /\ UNCHANGED <<cfg, downloadComplete, bgpc, cacheDirExists, cacheFile, remote,
                   installedPayloads, sinceInstall, updateFile, extractDir, stop>>
    /\ UNCHANGED unzipVars
    /\ UNCHANGED callVars
    /\ UNCHANGED bgPayload

NextConcurrent ==
    \/ BgUpdateHasChanged
    \/ BgDownload
    \/ Trigger
    \/ DoCommandWait
    \/ DoCommandUpdateHasChanged
    \/ DoCommandDownload
    \/ DoCommandFindInstaller
    \/ DoCommandUninstall
    \/ DoCommandInstall
    \/ SwitchCall

SpecConcurrent == Init /\ [][NextConcurrent]_vars

(* --------------------------------- Close -------------------------------- *)
\* Close calls downloadWorkers.Stop(): the context of the worker is cancelled
Close ==
    /\ pc = "idle"
    /\ stop = "no"
    /\ stop' = "stopping"
    /\ lastEval' = NoEval
    /\ UNCHANGED counters
    /\ UNCHANGED <<cfg, downloadComplete, bgpc, pc, ctxDone, result, cacheDirExists, cacheFile,
                   remote, payload, runUninstall, installedPayloads, sinceInstall,
                   updateFile, extractDir, dir, other>>
    /\ UNCHANGED unzipVars
    /\ UNCHANGED callVars
    /\ UNCHANGED bgPayload

\* (variant) Stop cancels the context and does not wait for the worker
CloseReturn_NoWait ==
    /\ stop = "stopping"
    /\ stop' = "stopped"
    /\ lastEval' = NoEval
    /\ UNCHANGED counters
    /\ UNCHANGED <<cfg, downloadComplete, bgpc, pc, ctxDone, result, cacheDirExists, cacheFile,
                   remote, payload, runUninstall, installedPayloads, sinceInstall,
                   updateFile, extractDir, dir, other>>
    /\ UNCHANGED unzipVars
    /\ UNCHANGED callVars
    /\ UNCHANGED bgPayload

\* Stop returns when the worker has returned, and Close returns nil
CloseReturn ==
    /\ stop = "stopping"
    /\ bgpc = "done"
    /\ stop' = "stopped"
    /\ lastEval' = NoEval
    /\ UNCHANGED counters
    /\ UNCHANGED <<cfg, downloadComplete, bgpc, pc, ctxDone, result, cacheDirExists, cacheFile,
                   remote, payload, runUninstall, installedPayloads, sinceInstall,
                   updateFile, extractDir, dir, other>>
    /\ UNCHANGED unzipVars
    /\ UNCHANGED callVars
    /\ UNCHANGED bgPayload

NextLifecycle ==
    \/ BgUpdateHasChanged
    \/ BgDownload
    \/ Trigger
    \/ CancelContext
    \/ DoCommandWait
    \/ DoCommandUpdateHasChanged
    \/ DoCommandDownload
    \/ DoCommandFindInstaller
    \/ DoCommandUninstall
    \/ DoCommandInstall
    \/ Close
    \/ CloseReturn

SpecLifecycle == Init /\ [][NextLifecycle]_vars

(* --------------------------- fair scheduling --------------------------- *)
\* the steps of the worker goroutine
Worker == BgUpdateHasChanged \/ BgDownload

\* the steps of the goroutine that runs a DoCommand call
Call ==
    \/ DoCommandWait
    \/ DoCommandUpdateHasChanged
    \/ DoCommandDownload
    \/ DoCommandFindInstaller
    \/ DoCommandUninstall
    \/ DoCommandInstall

\* one instance whose two goroutines are scheduled fairly and whose external
\* calls (probe, transfer, registry, subprocess) return
SpecFair == Init /\ [][NextStartup]_vars /\ WF_vars(Worker) /\ WF_vars(Call)

(* ------------------------ a server that changes ----------------------- *)
\* one instance, its worker and its DoCommand calls, while the server may
\* start serving another payload at any time
NextServer ==
    \/ NextStartup
    \/ RemoteChange

SpecServer == Init /\ [][NextServer]_vars

(* ------------------------------ unzipUpdate ----------------------------- *)
\* A path is the sequence of its components below the root of the volume;
\* "up" is the name of the destination directory itself, so that the name of
\* an entry can leave dest and come back into it
Components == {"..", "a", "up"}
\* dest: the path of the downloaded file without its .zip extension
Dest == <<"up">>

\* f.Name of an archive entry
EntryNames == UNION {[1..n -> Components] : n \in 1..MaxNameLen}
\* what goes wrong with an entry: nothing, f.Open fails, os.OpenFile of the
\* target fails, io.Copy fails
EntryFaults == {"none", "open", "create", "copy"}
\* a *zip.File: its name, whether FileInfo().IsDir(), and its fault
ZipFiles == {e \in [name : EntryNames, isDir : BOOLEAN, fault : EntryFaults] :
                e.isDir => e.fault \in {"none", "open"}}

\* filepath.Clean of a rooted path: ".." drops the component before it, and
\* is dropped itself at the root
RECURSIVE CleanFrom(_, _)
CleanFrom(done, rest) ==
    IF rest = <<>> THEN done
    ELSE IF Head(rest) = ".."
         THEN CleanFrom(IF done = <<>> THEN <<>> ELSE SubSeq(done, 1, Len(done) - 1), Tail(rest))
         ELSE CleanFrom(Append(done, Head(rest)), Tail(rest))
Clean(path) == CleanFrom(<<>>, path)

\* filepath.Join(dest, f.Name)
Join(d, name) == Clean(d \o name)

\* filepath.Dir(p)
Dir(p) == IF p = <<>> THEN <<>> ELSE SubSeq(p, 1, Len(p) - 1)

\* p is d or lies below d
Within(p, d) == Len(p) >= Len(d) /\ SubSeq(p, 1, Len(d)) = d

\* (variant) no test of the joined path
HasDestPrefix_NoCheck(p, d) == TRUE

\* strings.HasPrefix(p, filepath.Clean(dest)+string(os.PathSeparator))
HasDestPrefix(p, d) == Len(p) > Len(Clean(d)) /\ SubSeq(p, 1, Len(Clean(d))) = Clean(d)

\* os.RemoveAll(d) applied to a set of paths
RemoveAll(paths, d) == {p \in paths : ~Within(p, d)}

\* the directories os.MkdirAll(p) makes: none when a file is in the way
MkdirAll(p, fs, ds) ==
    IF \E k \in 1..Len(p) : SubSeq(p, 1, k) \in fs THEN ds
    ELSE ds \cup {SubSeq(p, 1, k) : k \in 1..Len(p)}

\* findInstaller is called with a .zip of up to MaxEntries entries (each
\* entry is drawn when the loop reaches it); dest may be left over from an
\* earlier call
InitUnzip ==
    /\ cfg = [DownloadURL |-> "u1", AbortOnUninstallErrors |-> FALSE, ForceInstall |-> FALSE,
              RegistryLookup |-> FALSE]
    /\ downloadComplete = TRUE
    /\ bgpc = "done"
    /\ pc = "locate"
    /\ ctxDone = FALSE
    /\ result = "none"
    /\ cacheDirExists = TRUE
    /\ cacheFile = FileAbsent
    /\ remote = [len |-> 0, etag |-> ""]
    /\ payload = NoPayload
    /\ runUninstall = "no"
    /\ lastEval = NoEval
    /\ installedPayloads = {}
    /\ sinceInstall = FALSE
    /\ nTriggers = 1
    /\ nReconfigs = 0
    /\ nRemoteChanges = 0
    /\ nLosses = 0
    /\ updateFile = TRUE
    /\ extractDir \in BOOLEAN
    /\ dir = ""
    /\ other = IdleCall
    /\ stop = "no"
    /\ rFileLen \in 0..MaxEntries
    /\ zipFile = NoZipFile
    /\ nextEntry = 0
    /\ files = IF extractDir THEN {Dest \o <<"a">>} ELSE {}
    /\ dirs = IF extractDir THEN {Dest} ELSE {}
    /\ unzipPc = "start"
    /\ unzipErr = "none"
    /\ NoCalls
    /\ bgPayload = NoPayload

\* unzipUpdate up to its loop: zip.OpenReader(src), os.MkdirAll(dest)
UnzipOpen ==
    /\ unzipPc = "start"
    /\ \E out \in {"open", "mkdir", "ok"} :
         IF out = "ok"
         THEN /\ dirs' = MkdirAll(Dest, files, dirs)
              /\ unzipPc' = "extract"
              /\ nextEntry' = 1
              /\ UNCHANGED unzipErr
         ELSE /\ unzipPc' = "err"
              /\ unzipErr' = out
              /\ UNCHANGED <<dirs, nextEntry>>
    /\ UNCHANGED <<rFileLen, zipFile, files>>
    /\ UNCHANGED orchestration
    /\ UNCHANGED callVars

\* extractAndWriteFile(f) for one entry. The os.RemoveAll(dest) after a
\* failed io.Copy runs while the target is still open (its Close is
\* deferred): the open file and the directories above it may stay
extractAndWriteFile(e) ==
    /\ zipFile' = e
    /\ LET p == Join(Dest, e.name)
           made == MkdirAll(Dir(p), files, dirs)
       IN IF e.fault = "open"
          THEN /\ files' = RemoveAll(files, Dest) /\ dirs' = RemoveAll(dirs, Dest)
               /\ unzipPc' = "err" /\ unzipErr' = "entryOpen"
               /\ UNCHANGED nextEntry
          ELSE IF ~HasDestPrefix(p, Dest)
          THEN /\ files' = RemoveAll(files, Dest) /\ dirs' = RemoveAll(dirs, Dest)
               /\ unzipPc' = "err" /\ unzipErr' = "illegal"
               /\ UNCHANGED nextEntry
          ELSE IF e.isDir
          THEN /\ dirs' = MkdirAll(p, files, dirs)
               /\ nextEntry' = nextEntry + 1
               /\ UNCHANGED <<files, unzipPc, unzipErr>>
          ELSE IF e.fault = "create" \/ Dir(p) \notin made \/ p \in made
          THEN /\ files' = RemoveAll(files, Dest) /\ dirs' = RemoveAll(dirs, Dest)
               /\ unzipPc' = "err" /\ unzipErr' = "create"
               /\ UNCHANGED nextEntry
          ELSE IF e.fault = "copy"
          THEN /\ \E held \in BOOLEAN :
                    /\ files' = RemoveAll(files, Dest) \cup (IF held THEN {p} ELSE {})
                    /\ dirs' = RemoveAll(dirs, Dest)
                               \cup (IF held THEN {d \in made : Within(p, d) /\ Within(d, Dest)} ELSE {})
               /\ unzipPc' = "err" /\ unzipErr' = "copy"
               /\ UNCHANGED nextEntry
          ELSE /\ files' = files \cup {p}
               /\ dirs' = made
               /\ nextEntry' = nextEntry + 1
               /\ UNCHANGED <<unzipPc, unzipErr>>

\* the loop of unzipUpdate handles the next entry of r.File; an error ends it
ExtractAndWriteFile ==
    /\ unzipPc = "extract"
    /\ nextEntry <= rFileLen
    /\ \E e \in ZipFiles : extractAndWriteFile(e)
    /\ UNCHANGED rFileLen
    /\ UNCHANGED orchestration
    /\ UNCHANGED callVars

\* the loop over r.File is through: unzipUpdate returns nil
UnzipReturn ==
    /\ unzipPc = "extract"
    /\ nextEntry > rFileLen
    /\ unzipPc' = "nil"
    /\ UNCHANGED <<rFileLen, zipFile, nextEntry, files, dirs, unzipErr>>
    /\ UNCHANGED orchestration
    /\ UNCHANGED callVars

\* (variant) findInstaller returns the error of unzipUpdate as it is
FindInstallerUnzipped_NoRemove ==
    /\ unzipPc \in {"err", "nil"}
    /\ unzipPc' = IF unzipPc = "err" THEN "failed" ELSE "unzipped"
    /\ UNCHANGED <<files, dirs>>
    /\ UNCHANGED <<rFileLen, zipFile, nextEntry, unzipErr>>
    /\ UNCHANGED orchestration
    /\ UNCHANGED callVars

\* findInstaller after unzipUpdate returned: on an error os.RemoveAll(dest)
\* (every handle is closed by now) and the error is returned, else src = dest
FindInstallerUnzipped ==
    /\ unzipPc \in {"err", "nil"}
    /\ IF unzipPc = "err"
       THEN /\ unzipPc' = "failed"
            /\ files' = RemoveAll(files, Dest)
            /\ dirs' = RemoveAll(dirs, Dest)
       ELSE /\ unzipPc' = "unzipped"
            /\ UNCHANGED <<files, dirs>>
    /\ UNCHANGED <<rFileLen, zipFile, nextEntry, unzipErr>>
    /\ UNCHANGED orchestration
    /\ UNCHANGED callVars

NextUnzip ==
    \/ UnzipOpen
    \/ ExtractAndWriteFile
    \/ UnzipReturn
    \/ FindInstallerUnzipped

SpecUnzip == InitUnzip /\ [][NextUnzip]_vars

(* ---------------------- findInstaller on a directory -------------------- *)
\* extensions := []string{".exe", ".msi", ".bat"}
extensions == {".exe", ".msi", ".bat"}
\* path.Ext of the name of a child of the directory
ChildExts == {".exe", ".msi", ".bat", ".md", ""}
\* an entry of os.ReadDir(src): the extension of its name, and whether it is
\* a subdirectory that holds a file with an installer extension
Children == [ext : ChildExts, nested : BOOLEAN]
\* os.ReadDir(src): the immediate children, sorted by name
Listings == UNION {[1..n -> Children] : n \in 0..MaxChildren}
\* what findInstaller is given with a directory src: the listing,
\* cfg.InstallerPath, whether os.Stat of the joined path succeeds, whether
\* os.ReadDir fails
FindArgs == [children : Listings, installerPath : {"", "sub/setup.bin"}, pathExists : BOOLEAN,
             readDirErr : BOOLEAN]

\* (variant) the scan descends into subdirectories
firstInstaller_Recursive(children) ==
    LET q == {i \in DOMAIN children : children[i].ext \in extensions \/ children[i].nested}
    IN IF q = {} THEN 0 ELSE CHOOSE i \in q : \A j \in q : i <= j

\* the loop over files: the index of the first child whose extension is in
\* extensions, 0 when the loop ends without a return
RECURSIVE firstInstallerFrom(_, _)
firstInstallerFrom(children, i) ==
    IF i > Len(children) THEN 0
    ELSE IF children[i].ext \in extensions THEN i
    ELSE firstInstallerFrom(children, i + 1)
firstInstaller(children) == firstInstallerFrom(children, 1)

\* (variant) a missing installer_path falls back to the scan
findInstallerInDir_FallsBack(a) ==
    LET i == firstInstaller(a.children) IN
    IF a.installerPath # "" /\ a.pathExists
    THEN [called |-> TRUE, installer |-> [kind |-> "configured", idx |-> 0], dir |-> "src",
          err |-> "nil", srcExists |-> TRUE]
    ELSE IF i # 0
    THEN [called |-> TRUE, installer |-> [kind |-> "child", idx |-> i], dir |-> "src",
          err |-> "nil", srcExists |-> TRUE]
    ELSE [called |-> TRUE, installer |-> NoInstaller, dir |-> "", err |-> "noInstaller",
          srcExists |-> TRUE]

\* findInstaller from desc.IsDir() on: installer, dir, err, and whether src
\* is still on disk when it returns
findInstallerInDir(a) ==
    IF a.installerPath # ""
    THEN IF ~a.pathExists
         THEN [called |-> TRUE, installer |-> NoInstaller, dir |-> "", err |-> "notFoundAt",
               srcExists |-> FALSE]
         ELSE [called |-> TRUE, installer |-> [kind |-> "configured", idx |-> 0], dir |-> "src",
               err |-> "nil", srcExists |-> TRUE]
    ELSE IF a.readDirErr
    THEN [called |-> TRUE, installer |-> NoInstaller, dir |-> "", err |-> "readDir",
          srcExists |-> FALSE]
    ELSE LET i == firstInstaller(a.children) IN
         IF i # 0
         THEN [called |-> TRUE, installer |-> [kind |-> "child", idx |-> i], dir |-> "src",
               err |-> "nil", srcExists |-> TRUE]
         ELSE [called |-> TRUE, installer |-> NoInstaller, dir |-> "", err |-> "noInstaller",
               srcExists |-> TRUE]

\* the orchestration at rest while a function is taken by itself
AtRest ==
    /\ cfg = [DownloadURL |-> "u1", AbortOnUninstallErrors |-> FALSE, ForceInstall |-> FALSE,
              RegistryLookup |-> FALSE]
    /\ downloadComplete = TRUE
    /\ bgpc = "done"
    /\ pc = "locate"
    /\ ctxDone = FALSE
    /\ result = "none"
    /\ cacheDirExists = TRUE
    /\ cacheFile = FileAbsent
    /\ remote = [len |-> 0, etag |-> ""]
    /\ payload = NoPayload
    /\ runUninstall = "no"
    /\ lastEval = NoEval
    /\ installedPayloads = {}
    /\ sinceInstall = FALSE
    /\ nTriggers = 1
    /\ nReconfigs = 0
    /\ nRemoteChanges = 0
    /\ nLosses = 0
    /\ updateFile = TRUE
    /\ extractDir = TRUE
    /\ dir = ""
    /\ other = IdleCall
    /\ stop = "no"
    /\ rFileLen = 0
    /\ zipFile = NoZipFile
    /\ nextEntry = 0
    /\ files = {}
    /\ dirs = {}
    /\ unzipPc = "start"
    /\ unzipErr = "none"
    /\ bgPayload = NoPayload

\* findInstaller is called with a directory of any listing
InitFind ==
    /\ AtRest
    /\ findArgs \in FindArgs
    /\ findRet = NoFindRet
    /\ NoUninstall
    /\ NoSpace
    /\ NoCache

FindInstallerInDir ==
    /\ ~findRet.called
    /\ findRet' = findInstallerInDir(findArgs)
    /\ UNCHANGED findArgs
    /\ UNCHANGED <<orchestration, unzipVars, uninstallVars, spaceVars, cacheVars>>

SpecFind == InitFind /\ [][FindInstallerInDir]_vars

(* ------------------- uninstallExistingInstallation -------------------- *)
\* the characters of a lookup field: a space and a letter
Chars == {" ", "k"}
ConfigStrings == UNION {[1..n -> Chars] : n \in 0..MaxFieldLen}

\* strings.TrimSpace: the string without its leading and trailing spaces
RECURSIVE TrimLeft(_)
TrimLeft(s) == IF s # <<>> /\ Head(s) = " " THEN TrimLeft(Tail(s)) ELSE s
RECURSIVE TrimRight(_)
TrimRight(s) ==
    IF s # <<>> /\ s[Len(s)] = " " THEN TrimRight(SubSeq(s, 1, Len(s) - 1)) ELSE s
TrimSpace(s) == TrimRight(TrimLeft(s))

\* what a subkey of an uninstall root holds: what opening it and reading the
\* value named by registry_lookup_key give, its QuietUninstallString and
\* UninstallString, and what running a command made for it ends in
LookupValues == {NoValue("open"), NoValue("value"),
                 StringValue(<<"k">>), StringValue(<<"k", " ">>)}
QuietUninstallStrings == {NoValue("value"), StringValue(<<" ">>), StringValue(<<"q">>)}
UninstallStrings == {NoValue("value"), StringValue(<<"u">>), StringValue(<<"MsiExec.exe">>)}
Subkeys == [lookup : LookupValues, quiet : QuietUninstallStrings, plain : UninstallStrings,
            output : {"nil", "err"}]

UninstallArgs == [RegistryLookupKey : ConfigStrings, RegistryLookupValue : ConfigStrings,
                  n : 0..MaxSubkeys]

\* the checks of the two lookup fields
skipUninstall_NoTrim(a) ==
    Len(a.RegistryLookupKey) <= 0 \/ Len(a.RegistryLookupValue) <= 0

skipUninstall(a) ==
    Len(TrimSpace(a.RegistryLookupKey)) <= 0 \/ Len(TrimSpace(a.RegistryLookupValue)) <= 0

\* (variant) a blank QuietUninstallString is taken as the command
uninstallScript_TakesBlank(sk) ==
    IF sk.quiet.err # "nil" THEN sk.plain ELSE sk.quiet

\* the uninstall command of a subkey: QuietUninstallString, or UninstallString
\* when that one is missing or blank
uninstallScript(sk) ==
    IF sk.quiet.err # "nil" \/ Len(TrimSpace(sk.quiet.s)) <= 0 THEN sk.plain ELSE sk.quiet

\* strings.Contains(script, "MsiExec.exe")
ContainsMsiExec(script) == \E j \in DOMAIN script : script[j] = "MsiExec.exe"

forceQuiet(script) == IF ContainsMsiExec(script) THEN script \o <<" ", "/quiet">> ELSE script

\* fmt.Sprintf("cmd /C %s", script)
fullCommand(script) == <<"cmd", " ", "/C", " ">> \o script

\* the command built for a script: the whole command line is the name of the
\* program, and there are no arguments
uninstallCommand(script) == Command(fullCommand(forceQuiet(script)), <<>>)

\* one subkey of the loop over the subkeys of a root
uninstallSubkey(a, c, sk) ==
    LET next == [c EXCEPT !.i = @ + 1, !.subkey = sk, !.matched = FALSE, !.script = <<>>,
                          !.cmd = NoCommand] IN
    IF sk.lookup.err # "nil" THEN next
    ELSE IF sk.lookup.s # a.RegistryLookupValue THEN next
    ELSE LET script == uninstallScript(sk)
             found == [next EXCEPT !.matched = TRUE, !.matches = @ + 1] IN
         IF script.err # "nil" THEN [found EXCEPT !.errors = @ + 1]
         ELSE LET ran == [found EXCEPT !.script = script.s, !.cmd = uninstallCommand(script.s)] IN
              IF sk.output # "nil" THEN [ran EXCEPT !.errors = @ + 1]
              ELSE [ran EXCEPT !.uninstallCount = @ + 1]

\* what is returned after the loops
uninstallResult_AnyError(c) ==
    IF c.errors > 0 THEN [c EXCEPT !.pc = "done", !.err = "errors", !.reported = c.errors]
    ELSE [c EXCEPT !.pc = "done", !.err = "nil"]

uninstallResult(c) ==
    IF c.uninstallCount > 0 THEN [c EXCEPT !.pc = "done", !.err = "nil"]
    ELSE IF c.errors > 0 THEN [c EXCEPT !.pc = "done", !.err = "errors", !.reported = c.errors]
    ELSE [c EXCEPT !.pc = "done", !.err = "nil"]

\* uninstallExistingInstallation is called with any lookup fields, on a
\* registry whose roots list n subkeys, the first root's before the second's
InitUninstall ==
    /\ AtRest
    /\ NoFind
    /\ NoSpace
    /\ NoCache
    /\ uninstallArgs \in UninstallArgs
    /\ uninstallCall = [NoUninstallCall EXCEPT !.pc = "start"]

UninstallStart ==
    /\ uninstallCall.pc = "start"
    /\ uninstallCall' = IF skipUninstall(uninstallArgs)
                        THEN [uninstallCall EXCEPT !.pc = "done", !.err = "nil"]
                        ELSE [uninstallCall EXCEPT !.pc = "loop", !.regRead = TRUE]
    /\ UNCHANGED uninstallArgs
    /\ UNCHANGED <<orchestration, unzipVars, findVars, spaceVars, cacheVars>>

UninstallSubkey ==
    /\ uninstallCall.pc = "loop"
    /\ uninstallCall.i < uninstallArgs.n
    /\ \E sk \in Subkeys : uninstallCall' = uninstallSubkey(uninstallArgs, uninstallCall, sk)
    /\ UNCHANGED uninstallArgs
    /\ UNCHANGED <<orchestration, unzipVars, findVars, spaceVars, cacheVars>>

UninstallReturn ==
    /\ uninstallCall.pc = "loop"
    /\ uninstallCall.i = uninstallArgs.n
    /\ uninstallCall' = uninstallResult(uninstallCall)
    /\ UNCHANGED uninstallArgs
    /\ UNCHANGED <<orchestration, unzipVars, findVars, spaceVars, cacheVars>>

NextUninstall == UninstallStart \/ UninstallSubkey \/ UninstallReturn

SpecUninstall == InitUninstall /\ [][NextUninstall]_vars

(* ------------------- the free-space check of downloadUpdate ------------ *)
\* int64 and uint64 of WordBits bits
MinInt64 == -(2 ^ (WordBits - 1))
MaxInt64 == 2 ^ (WordBits - 1) - 1
MaxUint64 == 2 ^ WordBits - 1

\* an int64 result: the integer x wrapped around into MinInt64..MaxInt64
int64(x) == ((x - MinInt64) % (2 ^ WordBits)) + MinInt64

\* the conversion uint64(x) of an int64 x: the same bits
uint64(x) == x % (2 ^ WordBits)

\* resp.Size(): -1 when the server gives no size, else the size of the transfer
Sizes == -1..MaxInt64

\* download_destination values: one character, a drive, a path on a drive
Destinations == {<<"C">>, <<"C", ":">>, <<"C", ":", "t">>}

\* the destination, what resp.Size() returns, and what getFreeDiskSpace
\* returns for the drive
SpaceArgs == [destination : Destinations, size : Sizes, freeSpace : 0..MaxUint64,
              err : {"nil", "err"}]

\* getFreeDiskSpace(destination[:2]) and the comparison that follows: the
\* download goes on, or is cancelled with the error that carries the two
\* numbers; destination[:2] panics for a destination of one character
checkFreeSpace(a) ==
    IF Len(a.destination) < 2
    THEN [called |-> TRUE, out |-> "panic", available |-> 0, needed |-> 0]
    ELSE IF a.err = "nil" /\ a.freeSpace < uint64(int64(a.size * 3))
         THEN [called |-> TRUE, out |-> "cancelled", available |-> a.freeSpace,
               needed |-> int64(a.size * 3)]
         ELSE [called |-> TRUE, out |-> "go on", available |-> 0, needed |-> 0]

\* downloadUpdate reaches the check with any size and any free space
InitFreeSpace ==
    /\ AtRest
    /\ NoFind
    /\ NoUninstall
    /\ NoCache
    /\ spaceArgs \in SpaceArgs
    /\ spaceRet = NoSpaceRet

CheckFreeSpace ==
    /\ ~spaceRet.called
    /\ spaceRet' = checkFreeSpace(spaceArgs)
    /\ UNCHANGED spaceArgs
    /\ UNCHANGED <<orchestration, unzipVars, findVars, uninstallVars, cacheVars>>

SpecFreeSpace == InitFreeSpace /\ [][CheckFreeSpace]_vars

(* ------------------- the cache directory and cache.json ---------------- *)
\* what is at a path: nothing, a directory, or a file
PathStates == {"absent", "dir", "file"}

\* the parent of the cache directory, the cache directory and cache.json in it
CacheStores ==
    {st \in [parent : PathStates, dir : PathStates, file : StoredFiles] :
        /\ st.dir # "absent" => st.parent = "dir"
        /\ st.file # FileAbsent => st.dir = "dir"}

\* getCacheDir: os.MkdirAll of filepath.Dir(cacheDir), the parent of the
\* cache directory; the path of the cache directory is returned
getCacheDir(st) ==
    IF st.parent = "file"
    THEN [err |-> "err", store |-> st]
    ELSE [err |-> "nil", store |-> [st EXCEPT !.parent = "dir"]]

\* cache.json can be opened in the cache directory
CacheDirUsable(g) == g.err = "nil" /\ g.store.dir = "dir"

\* the cache functions are called on a machine in any state
InitCache ==
    /\ AtRest
    /\ NoFind
    /\ NoUninstall
    /\ NoSpace
    /\ cacheStore \in CacheStores
    /\ cacheCall = NoCacheCall

GetCacheDir ==
    /\ LET g == getCacheDir(cacheStore) IN
       /\ cacheStore' = g.store
       /\ cacheCall' = [cacheCall EXCEPT !.op = "getCacheDir", !.err = g.err,
                                         !.details = ZeroCacheDetails]
    /\ UNCHANGED <<orchestration, unzipVars, findVars, uninstallVars, spaceVars>>

SetCacheDetails ==
    /\ \E details \in CacheDetailsType :
         LET g == getCacheDir(cacheStore)
             usable == CacheDirUsable(g)
         IN /\ cacheStore' = [g.store EXCEPT !.file =
                                 setCacheDetails(usable, getCacheDetailsFile(usable, @), details)]
            /\ cacheCall' = [op |-> "setCacheDetails",
                             err |-> IF getCacheDetailsFileErr(usable) THEN "err" ELSE "nil",
                             details |-> details, hasSet |-> TRUE, set |-> details]
    /\ UNCHANGED <<orchestration, unzipVars, findVars, uninstallVars, spaceVars>>

GetCacheDetails ==
    /\ LET g == getCacheDir(cacheStore)
           usable == CacheDirUsable(g)
       IN /\ cacheStore' = [g.store EXCEPT !.file = getCacheDetailsFile(usable, @)]
          /\ cacheCall' = [cacheCall EXCEPT !.op = "getCacheDetails", !.err = "nil",
                                            !.details = getCacheDetails(usable, cacheStore.file)]
    /\ UNCHANGED <<orchestration, unzipVars, findVars, uninstallVars, spaceVars>>

NextCache == GetCacheDir \/ SetCacheDetails \/ GetCacheDetails

SpecCache == InitCache /\ [][NextCache]_vars

(* ------------------------------ claims --------------------------------- *)
\* the payload a record describes
RecordPayload(d) == [url |-> d.DownloadURL, len |-> d.ContentLength, etag |-> d.ETag]

\* DoCommand returned a non-nil error
ReturnedError(r) == r \notin {"none", "nil"}

\* C1: whenever the persisted record has installed=true, installUpdate has
\* succeeded for the payload whose download_url, content_length and etag the
\* same record stores.
C1_InstalledImpliesInstall ==
    PersistedRecord.Installed => RecordPayload(PersistedRecord) \in installedPayloads

\* C2: a step of the program changes the persisted record only when a transfer
\* succeeded, and then to the configured URL, the response's length and etag
\* and installed=false, or when installUpdate succeeded, and then to a record
\* with installed=true.
C2_OnlyMutators ==
    [][(PersistedRecord' # PersistedRecord /\ nLosses' = nLosses)
        => \/ /\ \/ pc = "transfer" /\ pc' = "locate"
                 \/ bgpc = "transfer" /\ bgpc' = "done"
              /\ PersistedRecord' = [DownloadURL |-> cfg.DownloadURL, ContentLength |-> remote.len,
                                      ETag |-> remote.etag, Installed |-> FALSE]
           \/ /\ pc = "install" /\ result' = "nil"
              /\ PersistedRecord'.Installed]_vars

\* C2 witness: both mutators have written: the record of a download was
\* marked installed
C2_Witness ==
    /\ result = "nil"
    /\ payload.url = cfg.DownloadURL
    /\ PersistedRecord = [DownloadURL |-> payload.url, ContentLength |-> payload.len,
                          ETag |-> payload.etag, Installed |-> TRUE]

\* C3 (read in the code's favour: force_install unset, the probe answered):
\* the updateHasChanged call of a DoCommand that directly follows a successful
\* install, with the served payload unchanged, finds no update needed and the
\* call ends there.
C3_RetriggerNoUpdate ==
    (/\ lastEval.called /\ lastEval.by = "DoCommand"
     /\ sinceInstall
     /\ ~lastEval.force
     /\ lastEval.head.kind \notin {"err", "status"})
    => (~lastEval.changed /\ pc = "idle" /\ result = "errNoUpdateNeeded")

\* C4: a DoCommand whose change detector reports no update needed returns
\* success (no error) to the caller.
C4_NoUpdateIsSuccess ==
    (lastEval.called /\ lastEval.by = "DoCommand" /\ ~lastEval.changed)
    => (pc = "idle" /\ ~ReturnedError(result))

\* the record read by the last updateHasChanged call matches the configured
\* URL and the probe's answer
EvalMatches ==
    /\ lastEval.head.kind = "ok"
    /\ lastEval.details.DownloadURL = lastEval.url
    /\ lastEval.details.ContentLength = lastEval.head.len
    /\ lastEval.details.ETag = lastEval.head.etag

\* C5: with force_install set, updateHasChanged returns true whatever the
\* cached record and the server say.
C5_ForceInstall == (lastEval.called /\ lastEval.force) => lastEval.changed

\* C5 witness: force_install is set while the record is that of the installed,
\* still served payload
C5_Witness ==
    /\ lastEval.called /\ lastEval.force /\ lastEval.changed
    /\ lastEval.details.Installed
    /\ lastEval.details.DownloadURL = lastEval.url
    /\ lastEval.details.ContentLength = remote.len
    /\ lastEval.details.ETag = remote.etag

\* C6: when the record read has the configured URL, the length and etag a
\* successful probe returned, and installed=true, updateHasChanged returns
\* false.
C6_MatchInstalled ==
    (lastEval.called /\ EvalMatches /\ lastEval.details.Installed) => ~lastEval.changed

\* C6 witness: such a call was made
C6_Witness == lastEval.called /\ EvalMatches /\ lastEval.details.Installed /\ ~lastEval.changed

\* C7: when the probe returns an error or a status other than 200,
\* updateHasChanged returns true whatever the cached record.
C7_FailOpen ==
    (lastEval.called /\ lastEval.head.kind \in {"err", "status"}) => lastEval.changed

\* C7 witness: the probe failed while the record read was an installed one for
\* the configured URL
C7_Witness ==
    /\ lastEval.called /\ lastEval.head.kind \in {"err", "status"}
    /\ lastEval.details.Installed
    /\ lastEval.details.DownloadURL = lastEval.url
    /\ lastEval.changed

\* C8: a missing, unreadable or undecodable cache.json is read as the zero
\* record, and updateHasChanged then returns true.
C8_LostRecord ==
    (lastEval.called /\ lastEval.kind \in {"absent", "empty", "corrupt", "unreadable"})
    => (lastEval.details = ZeroCacheDetails /\ lastEval.changed)

\* C8 witness: an undecodable file was read, without force_install, with the
\* configured URL equal to the zero record's
C8_Witness ==
    /\ lastEval.called /\ lastEval.kind = "corrupt" /\ ~lastEval.force
    /\ lastEval.url = "" /\ lastEval.changed

\* C9: installUpdate is called only after uninstallExistingInstallation has
\* returned in the same call, and uninstallExistingInstallation is not called
\* once installUpdate has run.
C9_UninstallBeforeInstall ==
    /\ pc = "install" => runUninstall \in {"nil", "err"}
    /\ result \in {"nil", "errInstall"} => runUninstall \in {"nil", "err"}
    /\ pc = "uninstall" => (runUninstall = "no" /\ result = "none")

\* C9 witness: a call with a registry lookup configured ran the uninstall step
\* and then the installer
C9_Witness == cfg.RegistryLookup /\ runUninstall = "err" /\ result = "errInstall"

\* C10: after an uninstall error, without abort_on_uninstall_errors the call
\* goes on to installUpdate; with it the call has returned that error and
\* installUpdate was not called.
C10_AbortOnUninstallErrors ==
    runUninstall = "err" =>
        IF cfg.AbortOnUninstallErrors
        THEN pc = "idle" /\ result = "errUninstall"
        ELSE pc = "install" \/ (pc = "idle" /\ result \in {"nil", "errInstall"})

\* C10 witness: the uninstall step failed and the installer ran and succeeded
C10_Witness == runUninstall = "err" /\ ~cfg.AbortOnUninstallErrors /\ result = "nil"

\* C11: when findInstaller fails the call returns that error at once:
\* uninstallExistingInstallation and installUpdate are not called and
\* cache.json is not written; the uninstall step is entered only from a
\* findInstaller that returned an installer, and runs nowhere else.
C11_LocateFailureStops ==
    [][/\ (pc = "locate" /\ pc' = "idle")
          => /\ result' = "errFindInstaller"
             /\ runUninstall' = "no"
             /\ installedPayloads' = installedPayloads
             /\ cacheFile' = cacheFile
       /\ (pc' = "uninstall" /\ pc # "uninstall") => (pc = "locate" /\ result' = "none")
       /\ (runUninstall' # runUninstall /\ runUninstall' # "no") => pc = "uninstall"]_vars

\* C11 witness: findInstaller failed in a call with a registry lookup
\* configured, after the download saved its record
C11_Witness ==
    /\ pc = "idle" /\ result = "errFindInstaller"
    /\ cfg.RegistryLookup /\ runUninstall = "no"
    /\ cfg.DownloadURL # ""
    /\ PersistedRecord = [DownloadURL |-> cfg.DownloadURL, ContentLength |-> payload.len,
                          ETag |-> payload.etag, Installed |-> FALSE]

\* C12: when a DoCommand that reached findInstaller has returned, neither the
\* downloaded file nor the extracted directory exists.
C12_CleanupOnEveryExit ==
    (pc = "idle" /\ result \in {"errFindInstaller", "errUninstall", "errInstall", "nil"})
    => (~updateFile /\ ~extractDir)

\* C13 (read in the code's favour: the directory this call extracted): a
\* DoCommand that returned nil leaves installed=true in the persisted record,
\* and neither the downloaded file nor its extracted directory.
C13_SuccessfulRun ==
    (pc = "idle" /\ result = "nil")
    => (PersistedRecord.Installed /\ ~updateFile /\ (dir # "" => ~extractDir))

\* the positions of a DoCommand call past its wait loop
Working == {"eval", "transfer", "locate", "uninstall", "install"}

\* C14: a DoCommand is past its wait loop (change detection, download,
\* findInstaller, uninstall, install) only when downloadComplete is true.
C14_WaitsForDownload == pc \in Working => downloadComplete

\* C15 (read in the code's favour: the error of a transfer under a cancelled
\* context counts as the cancellation error): a DoCommand whose context is
\* cancelled while downloadComplete is false goes no further than the wait
\* loop and returns a cancellation error.
C15_CancelledWaitStops ==
    (ctxDone /\ ~downloadComplete)
    => (pc \in {"idle", "wait"} /\ result \in {"none", "errDownload"})

\* C16: two DoCommand calls on one instance are never both past their wait
\* loops: the steps of one call (download, cache access, findInstaller,
\* uninstall, install) are not interleaved with those of another.
C16_OneRunAtATime == ~(pc \in Working /\ other.pc \in Working)

\* C17: the constructor, at start and at every reconfiguration (which builds
\* a new instance), starts the background download at once, before any
\* DoCommand, with downloadComplete false.
C17_WorkerStartedOnBuild ==
    /\ (bgpc = "eval" /\ ~downloadComplete /\ nTriggers = 0)
    /\ [][nReconfigs' # nReconfigs => (bgpc' = "eval" /\ ~downloadComplete')]_vars

\* C17 witness: the worker of a rebuilt instance ran to its end, and no
\* DoCommand was ever called
C17_Witness == nReconfigs = 1 /\ nTriggers = 0 /\ bgpc = "done" /\ downloadComplete /\ updateFile

\* C18: once Close has returned the worker has returned, and it takes no
\* further step (no probe, no transfer, no write of cache.json).
C18_CloseStopsWorker ==
    /\ [](stop = "stopped" => bgpc = "done")
    /\ [][stop = "stopped" => (bgpc' = bgpc /\ downloadComplete' = downloadComplete)]_vars

\* C18 witness: Close returned on an instance whose worker had probed the
\* server and downloaded nothing
C18_Witness ==
    /\ stop = "stopped" /\ bgpc = "done" /\ nTriggers = 0
    /\ cfg.DownloadURL # "" /\ cacheFile.kind = "empty" /\ ~updateFile

\* the paths extraction has left at or below dest
Extracted == {p \in files \cup dirs : Within(p, Dest)}

\* the joined path of entry e lies below dest
BelowDest(e) == LET p == Join(Dest, e.name) IN Within(p, Dest) /\ p # Dest

\* C19: unzipUpdate makes no file or directory outside dest; the loop goes
\* past an entry only when its joined path lies below dest; and when an entry
\* is rejected for its path the loop stops at it and dest is gone, whatever
\* was extracted before.
C19_NoZipSlip ==
    /\ \A p \in files \cup dirs : Within(p, Dest)
    /\ (nextEntry > 1 /\ unzipErr = "none") => BelowDest(zipFile)
    /\ unzipErr = "illegal"
       => /\ unzipPc \in {"err", "failed"}
          /\ nextEntry <= rFileLen
          /\ ~BelowDest(zipFile)
          /\ Extracted = {}

\* C19 witness: the second entry is ../a, met after the first was extracted
C19_Witness ==
    /\ unzipErr = "illegal" /\ nextEntry = 2 /\ unzipPc = "err"
    /\ zipFile.name = <<"..", "a">>
    /\ Extracted = {}

\* C20: when findInstaller has returned the error of unzipUpdate, whatever
\* the reason, nothing is left at or below dest.
C20_AllOrNothing == unzipPc = "failed" => Extracted = {}

\* C20 witness: the copy of the second entry failed after the first entry
\* was written
C20_Witness ==
    /\ unzipPc = "failed" /\ unzipErr = "copy" /\ nextEntry = 2
    /\ zipFile.name = <<"a", "a">>
    /\ Extracted = {}

\* the children whose extension is .exe, .msi or .bat
Qualifying(children) == {i \in DOMAIN children : children[i].ext \in extensions}

\* C21: without installer_path, findInstaller on a directory returns the
\* first immediate child, in listing order, whose extension is .exe, .msi or
\* .bat; when no immediate child qualifies it fails with the not-found error,
\* also when a subdirectory holds a qualifying file.
C21_FirstImmediateChild ==
    (findRet.called /\ findArgs.installerPath = "" /\ ~findArgs.readDirErr)
    => LET q == Qualifying(findArgs.children) IN
       IF q = {}
       THEN findRet.err = "noInstaller" /\ findRet.installer.kind = "none"
       ELSE /\ findRet.err = "nil" /\ findRet.installer.kind = "child"
            /\ findRet.installer.idx \in q
            /\ \A j \in q : findRet.installer.idx <= j
            /\ findRet.dir = "src"

\* C21 witness: the only installer lies in a subdirectory, and is not found
C21_Witness ==
    /\ findRet.called /\ findArgs.installerPath = "" /\ ~findArgs.readDirErr
    /\ \E i \in DOMAIN findArgs.children : findArgs.children[i].nested
    /\ findRet.err = "noInstaller"

\* C22: with installer_path, findInstaller on a directory returns the joined
\* path when it exists, whatever the listing, and otherwise fails with the
\* not-found-at error and removes the directory.
C22_ConfiguredPath ==
    (findRet.called /\ findArgs.installerPath # "")
    => IF findArgs.pathExists
       THEN /\ findRet.err = "nil" /\ findRet.installer.kind = "configured"
            /\ findRet.dir = "src" /\ findRet.srcExists
       ELSE /\ findRet.err = "notFoundAt" /\ findRet.installer.kind = "none"
            /\ ~findRet.srcExists

\* C22 witness: the configured path is missing while a .exe lies at the top
C22_Witness ==
    /\ findRet.called /\ findArgs.installerPath # "" /\ ~findArgs.pathExists
    /\ Qualifying(findArgs.children) # {}
    /\ findRet.err = "notFoundAt" /\ ~findRet.srcExists

\* a lookup field that is empty or holds spaces only
Blank(s) == \A j \in DOMAIN s : s[j] = " "

\* C23: when registry_lookup_key or registry_lookup_value is empty or holds
\* only whitespace, uninstallExistingInstallation returns no error without
\* reading the registry and without running a command.
C23_BlankLookupIsNoOp ==
    (/\ uninstallCall.pc \in {"loop", "done"}
     /\ Blank(uninstallArgs.RegistryLookupKey) \/ Blank(uninstallArgs.RegistryLookupValue))
    => /\ uninstallCall.pc = "done"
       /\ uninstallCall.err = "nil"
       /\ ~uninstallCall.regRead
       /\ uninstallCall.i = 0
       /\ uninstallCall.matches = 0
       /\ uninstallCall.cmd = NoCommand

C23_Witness ==
    /\ uninstallCall.pc = "done"
    /\ ~Blank(uninstallArgs.RegistryLookupKey)
    /\ uninstallArgs.RegistryLookupValue = <<" ">>
    /\ uninstallArgs.n > 0
    /\ uninstallCall.err = "nil" /\ ~uninstallCall.regRead

\* the subkey holds an uninstall command
HasCommand(sk) == (sk.quiet.err = "nil" /\ ~Blank(sk.quiet.s)) \/ sk.plain.err = "nil"
\* the started process is the command interpreter running the line
RunsLine(cmd, line) ==
    /\ cmd.Path = <<"cmd">>
    /\ Len(cmd.Args) = 2 /\ cmd.Args[1] = <<"/C">>
    /\ Len(cmd.Args[2]) >= Len(line) /\ SubSeq(cmd.Args[2], 1, Len(line)) = line
\* the subkey the loop handled last matches the lookup value exactly
LastMatches ==
    /\ uninstallCall.i > 0
    /\ uninstallCall.subkey.lookup = StringValue(uninstallArgs.RegistryLookupValue)

\* C24: every subkey whose value equals the lookup value has its uninstall
\* command run, whatever the earlier matches ended in, and the enumeration
\* goes on to the last subkey.
C24_EveryMatchRun ==
    /\ (LastMatches /\ HasCommand(uninstallCall.subkey))
       => \/ RunsLine(uninstallCall.cmd, uninstallCall.subkey.quiet.s)
          \/ RunsLine(uninstallCall.cmd, uninstallCall.subkey.plain.s)
    /\ uninstallCall.regRead /\ uninstallCall.pc = "done" => uninstallCall.i = uninstallArgs.n

FailedAfterDownload == pc = "idle" /\ result \in {"errFindInstaller", "errUninstall", "errInstall"}

\* C26: after a call that downloaded and then failed before the install
\* completed, the persisted record has installed=false; and an evaluation by
\* DoCommand that reads a record with installed=false never ends in
\* errNoUpdateNeeded, it goes on to the transfer.
C26_FailedRunIsRetried ==
    /\ [](FailedAfterDownload => ~PersistedRecord.Installed)
    /\ [][(pc = "eval" /\ pc' # "eval" /\ ~PersistedRecord.Installed)
          => (lastEval'.changed /\ pc' = "transfer" /\ result' # "errNoUpdateNeeded")]_vars

\* C26 witness: the second call evaluates a record that matches the served
\* payload but is not installed, left by a first call that failed in
\* findInstaller (its extracted directory is still there), and goes on
C26_Witness ==
    /\ nTriggers = 2 /\ pc = "transfer"
    /\ lastEval.called /\ lastEval.by = "DoCommand" /\ ~lastEval.force
    /\ EvalMatches /\ ~lastEval.details.Installed /\ lastEval.changed
    /\ extractDir

\* what the server serves at the configured URL now
Served == [url |-> cfg.DownloadURL, len |-> remote.len, etag |-> remote.etag]
\* the running DoCommand is past its own downloadUpdate
Processing == pc \in {"locate", "uninstall", "install"}

NothingProcessed == installedPayloads = {} /\ runUninstall = "no" /\ ~extractDir /\ dir = ""

\* C28: the worker only downloads: updateHasChanged, the extraction,
\* the uninstall and the install run in a DoCommand call only, so without a
\* trigger nothing is uninstalled or installed.
C28_WorkerOnlyDownloads ==
    /\ lastEval.called => lastEval.by = "DoCommand"
    /\ nTriggers = 0 => NothingProcessed

\* C28 as amended: the worker evaluates the change and downloads; the
\* extraction, the uninstall and the install run in a DoCommand call only, so
\* without a trigger nothing is extracted, uninstalled or installed.
C28_WorkerEvaluatesAndDownloads ==
    /\ [](nTriggers = 0 => (pc = "idle" /\ NothingProcessed))
    /\ [][bgpc' # bgpc
          => UNCHANGED <<pc, result, payload, runUninstall, installedPayloads, extractDir, dir>>]_vars
    /\ [][(\/ installedPayloads' # installedPayloads
           \/ runUninstall' \notin {runUninstall, "no"}
           \/ extractDir' # extractDir)
          => (nTriggers > 0 /\ Processing)]_vars

\* C28 witness: before any trigger the worker has evaluated the change,
\* downloaded the payload and saved its record, and nothing was processed
C28_Witness ==
    /\ nTriggers = 0 /\ bgpc = "done" /\ downloadComplete
    /\ bgPayload # NoPayload /\ updateFile
    /\ cacheFile.kind = "json" /\ ~cacheFile.rec.Installed
    /\ NothingProcessed

\* C29: a call whose install succeeded returns nil also when the record
\* with installed=true could not be saved: the only error the install step
\* returns is that of installUpdate, after which nothing is installed or saved.
C29_SaveErrorIsNotReturned ==
    /\ [][(pc = "install" /\ pc' = "idle" /\ payload \notin installedPayloads
           /\ payload \in installedPayloads')
          => result' = "nil"]_vars
    /\ [][(pc = "install" /\ pc' = "idle" /\ result' # "nil")
          => (/\ result' = "errInstall"
              /\ installedPayloads' = installedPayloads
              /\ cacheFile' = cacheFile)]_vars

\* C29 witness: the call returned nil for a payload it installed while the
\* record could not be saved (no cache directory), so no record says installed
C29_Witness ==
    /\ pc = "idle" /\ result = "nil"
    /\ payload \in installedPayloads
    /\ getCacheDetailsFileErr(cacheDirExists)
    /\ ~PersistedRecord.Installed

\* C30: the download is cancelled with the capacity error exactly when the
\* free-space query succeeds and the free bytes F are fewer than three times
\* the reported size S, for every S; the error carries F and 3*S; a failed
\* query never blocks the download.
C30_CancelledIffTooSmall ==
    spaceRet.called
    => /\ spaceRet.out = "cancelled"
          <=> (spaceArgs.err = "nil" /\ spaceArgs.freeSpace < 3 * spaceArgs.size)
       /\ spaceRet.out = "cancelled"
          => (spaceRet.available = spaceArgs.freeSpace /\ spaceRet.needed = 3 * spaceArgs.size)
       /\ spaceArgs.err # "nil" => spaceRet.out = "go on"

\* C31: after getCacheDir returns without error the cache directory exists,
\* and the record handed to setCacheDetails is the one the next
\* getCacheDetails returns.
C31_CacheDirCreatedOnDemand ==
    /\ (cacheCall.op = "getCacheDir" /\ cacheCall.err = "nil") => cacheStore.dir = "dir"
    /\ (cacheCall.op = "getCacheDetails" /\ cacheCall.hasSet /\ cacheStore.parent = "dir")
       => cacheCall.details = cacheCall.set

\* C32: for a matching subkey the command is made from QuietUninstallString
\* when that is present and not blank, else from UninstallString; when
\* neither can be read the match is recorded as a failure, no command is
\* made for it, and the loop goes on to the remaining subkeys.
C32_ScriptSelection ==
    /\ [][(uninstallCall.pc = "loop" /\ uninstallCall'.i = uninstallCall.i + 1 /\ LastMatches')
          => LET sk == uninstallCall'.subkey IN
             /\ uninstallCall'.pc = "loop"
             /\ IF sk.quiet.err = "nil" /\ ~Blank(sk.quiet.s)
                THEN /\ uninstallCall'.script = sk.quiet.s
                     /\ uninstallCall'.cmd # NoCommand
                ELSE IF sk.plain.err = "nil"
                THEN /\ uninstallCall'.script = sk.plain.s
                     /\ uninstallCall'.cmd # NoCommand
                ELSE /\ uninstallCall'.errors = uninstallCall.errors + 1
                     /\ uninstallCall'.uninstallCount = uninstallCall.uninstallCount
                     /\ uninstallCall'.cmd = NoCommand]_vars
    /\ [](uninstallCall.cmd # NoCommand
          => uninstallCall.cmd.Path \in {fullCommand(uninstallCall.script),
                                         fullCommand(uninstallCall.script \o <<" ", "/quiet">>)})
    /\ []((uninstallCall.regRead /\ uninstallCall.pc = "done")
          => uninstallCall.i = uninstallArgs.n)

\* C32 witness: after a match with neither string, recorded as a failure,
\* the loop handled a match whose QuietUninstallString is blank and made the
\* command from its UninstallString
C32_Witness ==
    /\ uninstallCall.i = 2 /\ uninstallCall.errors = 1 /\ uninstallCall.matches = 2
    /\ LastMatches
    /\ uninstallCall.subkey.quiet = StringValue(<<" ">>)
    /\ uninstallCall.subkey.plain = StringValue(<<"u">>)
    /\ uninstallCall.script = <<"u">>
    /\ uninstallCall.cmd # NoCommand

\* DoCommand returned the error of its own transfer
DownloadFailed == pc = "idle" /\ result \in {"errDownload", "errNoSpace"}

\* C33: a call is past its download only with a file its own downloadUpdate
\* returned; a call whose transfer fails returns that error at once, without
\* locating, uninstalling, installing or marking the record installed, also
\* when the background download had succeeded.
C33_FailedDownloadStops ==
    /\ [](Processing => payload = Served)
    /\ [][(pc = "transfer" /\ pc' \notin {"transfer", "locate"})
          => /\ DownloadFailed'
             /\ UNCHANGED <<payload, runUninstall, installedPayloads, extractDir, dir>>
             /\ PersistedRecord' = PersistedRecord]_vars
    /\ [](DownloadFailed => (payload = NoPayload /\ runUninstall = "no" /\ dir = ""))
    /\ [][(PersistedRecord'.Installed /\ ~PersistedRecord.Installed) => pc = "install"]_vars

\* C33 witness: the background download had succeeded and its file is on
\* disk, and the trigger's own transfer failed: the call returned the error
C33_Witness ==
    /\ DownloadFailed /\ nTriggers = 1
    /\ bgpc = "done" /\ bgPayload = Served /\ updateFile
    /\ installedPayloads = {} /\ ~extractDir

\* C34: downloadComplete is false until the worker's downloadUpdate call has
\* returned, and once true it stays true for the life of the instance, also
\* while a DoCommand call downloads.
C34_FlagSetOnce ==
    /\ [](bgpc # "done" => ~downloadComplete)
    /\ [][downloadComplete => downloadComplete']_vars

\* C34 witness: a DoCommand call made its own transfer and the flag, set by
\* the worker before, is still set
C34_Witness ==
    /\ downloadComplete /\ bgpc = "done"
    /\ nTriggers = 1 /\ pc = "locate" /\ payload # NoPayload

\* C35: under fair scheduling, with external calls that return, the worker's
\* attempt ends and downloadComplete becomes true whatever the attempt ended
\* in; a DoCommand call that waits leaves the wait, and the call returns.
C35_WaitEnds ==
    /\ (bgpc # "done") ~> (bgpc = "done" /\ downloadComplete)
    /\ (pc = "wait") ~> (pc # "wait" /\ (downloadComplete \/ ctxDone))
    /\ (pc # "idle") ~> (pc = "idle" /\ result # "none")

\* C35 witness: a DoCommand call waits, its context not cancelled, while the
\* worker's transfer is in flight
C35_Witness ==
    /\ pc = "wait" /\ ~ctxDone
    /\ bgpc = "transfer" /\ ~downloadComplete

====
